---- MODULE Spec2Model ----
(***************************************************************************)
(* Net Worth Tracker (src/app.js): the record store (assets, liabilities,  *)
(* snapshots), the derived calculations, the asset / liability forms, the  *)
(* CSV codec and the import's file-read boundary, as a state machine.      *)
(*                                                                         *)
(* Strings are sequences of one-character strings, so that the tokenizer,  *)
(* trim, parseFloat and the template literals of the export are computed   *)
(* character by character.  Numbers are records: a finite integer, NaN or  *)
(* a signed infinity; a quotient that is not whole carries its denominator *)
(* (the code's doubles, exact, without rounding).                          *)
(*                                                                         *)
(* A handler can run whenever the element it is registered on exists: the  *)
(* Edit and Delete buttons of the cards rendered last, the buttons and the *)
(* forms of the page.  Which of them a style sheet hides is not the        *)
(* script's matter, and the script checks nothing of it.                   *)
(***************************************************************************)
EXTENDS Integers, Sequences, FiniteSets, TLC

\* ------------------------------------------------------------------ bounds

\* A behaviour holds at most MaxSteps events (user actions, file-read
\* completions, timer callbacks and clock ticks); it bounds the ids generated,
\* the clock and the reads in flight with them.
MaxSteps == 4

\* The largest of the small amounts a liability is given.
MaxAmount == 9

\* The length of the longest line given to parseCSVLine.
MaxLen == 4

\* ----------------------------------------------------------------- strings

EmptyStr == << >>
NULL == 0

sAsset == <<"A","s","s","e","t">>
sLiability == <<"L","i","a","b","i","l","i","t","y">>
sRealEstate == <<"R","e","a","l"," ","E","s","t","a","t","e">>
sVehicle == <<"V","e","h","i","c","l","e">>
sBankAccount == <<"B","a","n","k"," ","A","c","c","o","u","n","t">>
sInvestmentAccount == <<"I","n","v","e","s","t","m","e","n","t"," ","A","c","c","o","u","n","t">>
sRetirementAccount == <<"R","e","t","i","r","e","m","e","n","t"," ","A","c","c","o","u","n","t">>
sCash == <<"C","a","s","h">>
sCryptocurrency == <<"C","r","y","p","t","o","c","u","r","r","e","n","c","y">>
sBusinessInterest == <<"B","u","s","i","n","e","s","s"," ","I","n","t","e","r","e","s","t">>
sCollectibles == <<"C","o","l","l","e","c","t","i","b","l","e","s">>
sJewelry == <<"J","e","w","e","l","r","y">>
sOther == <<"O","t","h","e","r">>
sMortgage == <<"M","o","r","t","g","a","g","e">>
sAutoLoan == <<"A","u","t","o"," ","L","o","a","n">>
sStudentLoan == <<"S","t","u","d","e","n","t"," ","L","o","a","n">>
sCreditCard == <<"C","r","e","d","i","t"," ","C","a","r","d">>
sPersonalLoan == <<"P","e","r","s","o","n","a","l"," ","L","o","a","n">>
sBusinessLoan == <<"B","u","s","i","n","e","s","s"," ","L","o","a","n">>
sMedicalDebt == <<"M","e","d","i","c","a","l"," ","D","e","b","t">>
sInfinity == <<"I","n","f","i","n","i","t","y">>
sNaN == <<"N","a","N">>
\* The header row that exportData writes.
sHeader ==
    <<"T","y","p","e",",","N","a","m","e",",","C","a","t","e","g","o","r","y",",","P","u","r","c","h","a","s","e"," ","D","a","t","e",",","P","u","r","c","h","a","s","e"," ","P","r","i","c","e",",","C","u","r","r","e","n","t"," ","V","a","l","u">>
    \o <<"e",",","O","r","i","g","i","n","a","l"," ","A","m","o","u","n","t",",","C","u","r","r","e","n","t"," ","B","a","l","a","n","c","e",",","I","n","t","e","r","e","s","t"," ","R","a","t","e",",","S","t","a","r","t"," ","D","a","t","e",",","N","o","t","e","s">>

\* The keys of assetCategories and of liabilityCategories.
assetCategories ==
    { sRealEstate, sVehicle, sBankAccount, sInvestmentAccount, sRetirementAccount,
      sCash, sCryptocurrency, sBusinessInterest, sCollectibles, sJewelry, sOther }

liabilityCategories ==
    { sMortgage, sAutoLoan, sStudentLoan, sCreditCard, sPersonalLoan,
      sBusinessLoan, sMedicalDebt, sOther }

IsSpace(c) == c \in {" ", "\t", "\r", "\n"}

IsDigit(c) == c \in {"0","1","2","3","4","5","6","7","8","9"}

DigitVal(c) ==
    CASE c = "0" -> 0 [] c = "1" -> 1 [] c = "2" -> 2 [] c = "3" -> 3
      [] c = "4" -> 4 [] c = "5" -> 5 [] c = "6" -> 6 [] c = "7" -> 7
      [] c = "8" -> 8 [] c = "9" -> 9

DigitChar(d) == <<"0","1","2","3","4","5","6","7","8","9">>[d + 1]

RECURSIVE DropLeadingSpace(_)
DropLeadingSpace(s) ==
    IF s # << >> /\ IsSpace(Head(s)) THEN DropLeadingSpace(Tail(s)) ELSE s

RECURSIVE DropTrailingSpace(_)
DropTrailingSpace(s) ==
    IF s # << >> /\ IsSpace(s[Len(s)])
    THEN DropTrailingSpace(SubSeq(s, 1, Len(s) - 1))
    ELSE s

\* String.prototype.trim
Trim(s) == DropTrailingSpace(DropLeadingSpace(s))

StartsWith(s, p) == Len(s) >= Len(p) /\ SubSeq(s, 1, Len(p)) = p

\* A string is truthy when it is not empty.
Truthy(s) == s # EmptyStr

\* ----------------------------------------------------------------- numbers

Fin(n) == [k |-> "fin", v |-> n]
NaN == [k |-> "nan", v |-> 0]
Inf(sign) == [k |-> "inf", v |-> sign]

IsNaN(x) == x.k = "nan"
IsFinite(x) == x.k = "fin"

\* x + y on doubles
NumAdd(x, y) ==
    CASE IsNaN(x) \/ IsNaN(y) -> NaN
      [] x.k = "inf" /\ y.k = "inf" -> IF x.v = y.v THEN x ELSE NaN
      [] x.k = "inf" -> x
      [] y.k = "inf" -> y
      [] OTHER -> Fin(x.v + y.v)

NumNeg(x) ==
    CASE IsNaN(x) -> NaN
      [] x.k = "inf" -> Inf(0 - x.v)
      [] OTHER -> Fin(0 - x.v)

\* x - y on doubles
NumSub(x, y) == NumAdd(x, NumNeg(y))

Abs(n) == IF n < 0 THEN 0 - n ELSE n

RECURSIVE Gcd(_, _)
Gcd(a, b) == IF b = 0 THEN a ELSE Gcd(b, a % b)

\* The numerator and the denominator of a finite number: a whole number n is
\* Fin(n), any other quotient carries its denominator.
Num(x) == x.v
Den(x) == IF "d" \in DOMAIN x THEN x.d ELSE 1

\* The finite number n / d (d # 0), in lowest terms.  The rounding of a double
\* is not modelled: quotients are exact.
Quot(n, d) ==
    LET g == Gcd(Abs(n), Abs(d))
        sn == IF d < 0 THEN 0 - n ELSE n
    IN  IF Abs(d) = g THEN Fin(sn \div g)
        ELSE [k |-> "fin", v |-> sn \div g, d |-> Abs(d) \div g]

Sign(x) == IF x.v < 0 THEN -1 ELSE 1

\* x / y on doubles: 0 / 0 and Infinity / Infinity are NaN, any other number
\* over 0 is an infinity (the zero is the positive one).
NumDiv(x, y) ==
    CASE IsNaN(x) \/ IsNaN(y) -> NaN
      [] x.k = "inf" /\ y.k = "inf" -> NaN
      [] x.k = "inf" -> Inf(x.v * Sign(y))
      [] y.k = "inf" -> Fin(0)
      [] y.v = 0 -> IF x.v = 0 THEN NaN ELSE Inf(Sign(x))
      [] OTHER -> Quot(Num(x) * Den(y), Den(x) * Num(y))

\* x * y on doubles
NumMul(x, y) ==
    CASE IsNaN(x) \/ IsNaN(y) -> NaN
      [] x.k = "inf" /\ y.k = "inf" -> Inf(x.v * y.v)
      [] x.k = "inf" -> IF y.v = 0 THEN NaN ELSE Inf(x.v * Sign(y))
      [] y.k = "inf" -> IF x.v = 0 THEN NaN ELSE Inf(y.v * Sign(x))
      [] OTHER -> Quot(Num(x) * Num(y), Den(x) * Den(y))

RECURSIVE DigitsValue(_, _)
\* The value of the longest run of digits that starts s, after acc; -1 when
\* s does not start with a digit and acc is -1.
DigitsValue(s, acc) ==
    IF s # << >> /\ IsDigit(Head(s))
    THEN DigitsValue(Tail(s), (IF acc < 0 THEN 0 ELSE acc * 10) + DigitVal(Head(s)))
    ELSE acc

\* parseFloat on a string: leading white space is skipped, then the longest
\* prefix that is a decimal literal is converted (an optional sign, then
\* Infinity or digits); NaN when there is none.  Fractions and exponents are
\* outside the modelled alphabet.
ParseFloat(str) ==
    LET s == DropLeadingSpace(str)
        neg == s # << >> /\ Head(s) = "-"
        signed == s # << >> /\ Head(s) \in {"-", "+"}
        body == IF signed THEN Tail(s) ELSE s
        n == DigitsValue(body, -1)
    IN  IF StartsWith(body, sInfinity) THEN Inf(IF neg THEN -1 ELSE 1)
        ELSE IF n < 0 THEN NaN
        ELSE Fin(IF neg THEN 0 - n ELSE n)

RECURSIVE NatToString(_)
NatToString(n) ==
    IF n < 10 THEN <<DigitChar(n)>>
    ELSE NatToString(n \div 10) \o <<DigitChar(n % 10)>>

\* Number::toString, as a template literal or parseFloat's argument uses it.
NumToString(x) ==
    CASE IsNaN(x) -> sNaN
      [] x.k = "inf" -> IF x.v < 0 THEN <<"-">> \o sInfinity ELSE sInfinity
      [] OTHER -> IF x.v < 0 THEN <<"-">> \o NatToString(0 - x.v) ELSE NatToString(x.v)

\* JSON.stringify of a number: NaN and the infinities are written as null.
JsonNum(x) == IF IsFinite(x) THEN x ELSE [k |-> "null", v |-> 0]

\* ------------------------------------------------------------------- CSV

RECURSIVE TokenizeFrom(_, _, _, _)
\* The loop of parseCSVLine from character i on: current is the field being
\* collected, inQuotes the tokenizer's state, and the result the fields that
\* follow (the last one pushed after the loop).
TokenizeFrom(line, i, current, inQuotes) ==
    IF i > Len(line) THEN <<Trim(current)>>
    ELSE IF line[i] = "\"" THEN TokenizeFrom(line, i + 1, current, ~inQuotes)
    ELSE IF line[i] = "," /\ ~inQuotes
         THEN <<Trim(current)>> \o TokenizeFrom(line, i + 1, EmptyStr, inQuotes)
    ELSE TokenizeFrom(line, i + 1, current \o <<line[i]>>, inQuotes)

\* A tokenizer that starts inside quotes.
parseCSVLineInQuotes(line) == TokenizeFrom(line, 1, EmptyStr, TRUE)

parseCSVLine(line) == TokenizeFrom(line, 1, EmptyStr, FALSE)

\* String.prototype.split with a one-character separator: the pieces between
\* consecutive separators, in order (one more piece than separators).
Split(text, sep) ==
    LET seps == { i \in 1..Len(text) : text[i] = sep }
        \* the position of the k-th separator; 0 and Len(text) + 1 bracket them
        SepAt(k) ==
            IF k = 0 THEN 0
            ELSE IF k > Cardinality(seps) THEN Len(text) + 1
            ELSE CHOOSE i \in seps : Cardinality({ j \in seps : j < i }) = k - 1
    IN  [ k \in 1..(Cardinality(seps) + 1) |->
            SubSeq(text, SepAt(k - 1) + 1, SepAt(k) - 1) ]

RECURSIVE SelectLines(_)
\* .filter(line => line.trim())
SelectLines(ls) ==
    IF ls = << >> THEN << >>
    ELSE IF Truthy(Trim(Head(ls))) THEN <<Head(ls)>> \o SelectLines(Tail(ls))
    ELSE SelectLines(Tail(ls))

\* The non-blank lines of a CSV text, the header first.
CsvLines(csvText) == SelectLines(Split(csvText, "\n"))

\* x || 0 on a number
OrZero(x) == IF IsNaN(x) THEN Fin(0) ELSE x

\* The asset object parseCSV builds from a row's fields.
CsvAsset(fields, id, t) ==
    [ id |-> id,
      name |-> fields[2],
      category |-> fields[3],
      purchaseDate |-> fields[4],
      purchasePrice |-> ParseFloat(fields[5]),
      currentValue |-> ParseFloat(fields[6]),
      associatedDebtId |-> NULL,
      notes |-> fields[11],
      createdAt |-> t,
      updatedAt |-> t ]

\* The liability object parseCSV builds from a row's fields.
CsvLiability(fields, id, t) ==
    [ id |-> id,
      name |-> fields[2],
      category |-> fields[3],
      originalAmount |-> ParseFloat(fields[7]),
      currentBalance |-> ParseFloat(fields[8]),
      interestRate |-> OrZero(ParseFloat(fields[9])),
      startDate |-> fields[10],
      associatedAssetId |-> NULL,
      notes |-> fields[11],
      createdAt |-> t,
      updatedAt |-> t ]

\* The test under which parseCSV pushes an asset.
CsvAssetAccepted(a) ==
    /\ Truthy(a.name) /\ Truthy(a.category) /\ Truthy(a.purchaseDate)
    /\ ~IsNaN(a.purchasePrice) /\ ~IsNaN(a.currentValue)

\* The test under which parseCSV pushes a liability.
CsvLiabilityAccepted(l) ==
    /\ Truthy(l.name) /\ Truthy(l.category)
    /\ ~IsNaN(l.originalAmount) /\ ~IsNaN(l.currentBalance)
    /\ Truthy(l.startDate)

\* One iteration of parseCSV's loop on the line, from the store st =
\* [assets, liabilities, assetsAdded, liabilitiesAdded, nextId].
CsvRow(st, line, t) ==
    LET fields == parseCSVLine(line)
        type == Trim(fields[1])
    IN  IF Len(fields) < 11 THEN st
        ELSE IF type = sAsset THEN
            LET a == CsvAsset(fields, st.nextId, t)
            IN  IF CsvAssetAccepted(a)
                THEN [st EXCEPT !.assets = Append(@, a), !.assetsAdded = @ + 1,
                                !.nextId = @ + 1]
                ELSE [st EXCEPT !.nextId = @ + 1]
        ELSE IF type = sLiability THEN
            LET l == CsvLiability(fields, st.nextId, t)
            IN  IF CsvLiabilityAccepted(l)
                THEN [st EXCEPT !.liabilities = Append(@, l), !.liabilitiesAdded = @ + 1,
                                !.nextId = @ + 1]
                ELSE [st EXCEPT !.nextId = @ + 1]
        ELSE st

RECURSIVE CsvRows(_, _, _, _)
CsvRows(st, lines, i, t) ==
    IF i > Len(lines) THEN st ELSE CsvRows(CsvRow(st, lines[i], t), lines, i + 1, t)

\* A parseCSV that builds the collections from the file alone.
parseCSVReplacing(csvText, as, ls, id0, t) ==
    CsvRows([assets |-> << >>, liabilities |-> << >>, assetsAdded |-> 0,
             liabilitiesAdded |-> 0, nextId |-> id0],
            CsvLines(csvText), 2, t)

\* parseCSV on the store (as, ls): the collections after it, the counts it
\* returns and the id counter after its generateId calls.  The loop starts at
\* the second line (the header is skipped).
parseCSV(csvText, as, ls, id0, t) ==
    CsvRows([assets |-> as, liabilities |-> ls, assetsAdded |-> 0,
             liabilitiesAdded |-> 0, nextId |-> id0],
            CsvLines(csvText), 2, t)

RECURSIVE JoinLines(_)
JoinLines(rows) == IF rows = << >> THEN << >> ELSE Head(rows) \o JoinLines(Tail(rows))

Quoted(str) == <<"\"">> \o str \o <<"\"">>

\* The row exportData writes for an asset.
ExportAssetRow(a) ==
    sAsset \o <<",">> \o Quoted(a.name) \o <<",">> \o a.category \o <<",">>
    \o a.purchaseDate \o <<",">> \o NumToString(a.purchasePrice) \o <<",">>
    \o NumToString(a.currentValue) \o <<",", ",", ",", ",", ",">>
    \o Quoted(a.notes) \o <<"\n">>

\* The row exportData writes for a liability: the template literal puts two
\* empty columns after the category (the header has three asset-only columns
\* there), so the row has ten columns.  The notes are the last, quoted column,
\* as in the asset row: the expression of the source line (liability.notes ||
\* '"}"...) opens a string literal that the line does not close, and is read
\* here as the asset row's (notes || '').
ExportLiabilityRow(l) ==
    sLiability \o <<",">> \o Quoted(l.name) \o <<",">> \o l.category
    \o <<",", ",", ",">> \o NumToString(l.originalAmount) \o <<",">>
    \o NumToString(l.currentBalance) \o <<",">> \o NumToString(l.interestRate)
    \o <<",">> \o l.startDate \o <<",">> \o Quoted(l.notes) \o <<"\n">>

\* The CSV text exportData hands to downloadCSV.
exportData(as, ls) ==
    sHeader \o <<"\n">>
    \o JoinLines([i \in 1..Len(as) |-> ExportAssetRow(as[i])])
    \o JoinLines([i \in 1..Len(ls) |-> ExportLiabilityRow(ls[i])])

\* ----------------------------------------------------------------- state

VARIABLES
    assets,             \* the assets array
    liabilities,        \* the liabilities array
    snapshots,          \* the snapshots array
    editingAssetId,     \* NULL or the id the asset form edits
    editingLiabilityId, \* NULL or the id the liability form edits
    assetForm,          \* the asset form's category select and debt select
    liabilityForm,      \* the liability form's category select and asset select
    stored,             \* localStorage: the three collections as saveData wrote them
    view,               \* what the display functions rendered last
    importResult,       \* the import-result element
    reading,            \* the files a FileReader is reading
    timers,             \* the pending setTimeout(closeAllModals) callbacks
    nextId,             \* the next id generateId returns
    now,                \* the clock
    errors,             \* the uncaught exceptions reported so far, by name
    setItemFails,       \* 0, or which setItem of a saveData localStorage refuses
    call,               \* a function called on its own: its argument and result
    steps               \* the events so far

vars ==
    << assets, liabilities, snapshots, editingAssetId, editingLiabilityId,
       assetForm, liabilityForm, stored, view, importResult, reading, timers,
       nextId, now, errors, setItemFails, call, steps >>

\* The program's state and its environment's, without the count of events.
progVars ==
    << assets, liabilities, snapshots, editingAssetId, editingLiabilityId,
       assetForm, liabilityForm, stored, view, importResult, reading, timers,
       nextId, now, errors, setItemFails, call >>

\* No function is called on its own.
NoCall == [fn |-> "", arg |-> << >>, result |-> << >>, done |-> FALSE]

\* The last conjunct of every event: the events that change something are
\* counted, up to the bound.
Event ==
    /\ steps < MaxSteps
    /\ steps' = IF progVars' = progVars THEN steps ELSE steps + 1

\* -------------------------------------------------------------- calculations

RECURSIVE ReduceAssets(_, _, _)
\* assets.reduce((total, asset) => total + parseFloat(asset.currentValue), total)
\* from element i on.
ReduceAssets(as, i, total) ==
    IF i > Len(as) THEN total
    ELSE ReduceAssets(as, i + 1,
                      NumAdd(total, ParseFloat(NumToString(as[i].currentValue))))

RECURSIVE ReduceLiabilities(_, _, _)
ReduceLiabilities(ls, i, total) ==
    IF i > Len(ls) THEN total
    ELSE ReduceLiabilities(ls, i + 1,
                           NumAdd(total, ParseFloat(NumToString(ls[i].currentBalance))))

\* A reduce that stops one element early.
TotalAssetsButLast(as) == ReduceAssets(SubSeq(as, 1, Len(as) - 1), 1, Fin(0))

TotalAssetsOf(as) == ReduceAssets(as, 1, Fin(0))

TotalLiabilitiesOf(ls) == ReduceLiabilities(ls, 1, Fin(0))

NetWorthOf(as, ls) == NumSub(TotalAssetsOf(as), TotalLiabilitiesOf(ls))

calculateTotalAssets == TotalAssetsOf(assets)

calculateTotalLiabilities == TotalLiabilitiesOf(liabilities)

calculateNetWorth == NumSub(calculateTotalAssets, calculateTotalLiabilities)

\* Array.prototype.findIndex on the id: the first position, 0 when there is none.
FindIndex(recs, id) ==
    IF \E i \in 1..Len(recs) : recs[i].id = id
    THEN CHOOSE i \in 1..Len(recs) :
            /\ recs[i].id = id
            /\ \A j \in 1..(i - 1) : recs[j].id # id
    ELSE 0

\* An equity that subtracts the debt's original amount.
EquityOfOriginalAmount(asset, ls) ==
    IF asset.associatedDebtId = NULL THEN asset.currentValue
    ELSE LET i == FindIndex(ls, asset.associatedDebtId)
         IN  IF i = 0 THEN asset.currentValue
             ELSE NumSub(asset.currentValue, ls[i].originalAmount)

EquityOf(asset, ls) ==
    IF asset.associatedDebtId = NULL THEN asset.currentValue
    ELSE LET i == FindIndex(ls, asset.associatedDebtId)
         IN  IF i = 0 THEN asset.currentValue
             ELSE NumSub(asset.currentValue, ls[i].currentBalance)

calculateAssetEquity(asset) == EquityOf(asset, liabilities)

\* calculatePayoffPercentage: (paid / originalAmount) * 100, with nothing
\* before the division.
calculatePayoffPercentage(liability) ==
    LET paid == NumSub(liability.originalAmount, liability.currentBalance)
    IN  NumMul(NumDiv(paid, liability.originalAmount), Fin(100))

\* ------------------------------------------------------- persistence, view

JsonAsset(a) ==
    [a EXCEPT !.purchasePrice = JsonNum(@), !.currentValue = JsonNum(@)]

JsonLiability(l) ==
    [l EXCEPT !.originalAmount = JsonNum(@), !.currentBalance = JsonNum(@),
              !.interestRate = JsonNum(@)]

JsonSnapshot(sn) ==
    [sn EXCEPT !.totalAssets = JsonNum(@), !.totalLiabilities = JsonNum(@),
               !.netWorth = JsonNum(@)]

\* What saveData leaves in localStorage for the three collections.
saveData(as, ls, sns) ==
    [ assets |-> [i \in 1..Len(as) |-> JsonAsset(as[i])],
      liabilities |-> [i \in 1..Len(ls) |-> JsonLiability(ls[i])],
      snapshots |-> [i \in 1..Len(sns) |-> JsonSnapshot(sns[i])] ]

\* saveData throws: localStorage refuses one of its setItem calls (the quota is
\* exceeded).
SaveThrows == setItemFails # 0

\* What saveData leaves in localStorage when it may throw: the setItem calls
\* before the refused one are done, the others are not reached.
SetItems(as, ls, sns) ==
    LET new == saveData(as, ls, sns)
    IN  [ assets |-> IF setItemFails \in {1} THEN stored.assets ELSE new.assets,
          liabilities |->
              IF setItemFails \in {1, 2} THEN stored.liabilities ELSE new.liabilities,
          snapshots |->
              IF setItemFails \in {1, 2, 3} THEN stored.snapshots ELSE new.snapshots ]

\* The uncaught exceptions after a handler's saveData: the handler ends at a
\* saveData that throws.
ErrorsAfterSave == IF SaveThrows THEN errors \cup {"QuotaExceededError"} ELSE errors

\* What updateAllDisplays renders: the net worth of the overview, the cards
\* of the two lists (their ids, in order) and the counts of the statistics.
updateAllDisplays(as, ls, sns) ==
    [ netWorth |-> NetWorthOf(as, ls),
      assets |-> [i \in 1..Len(as) |-> as[i].id],
      liabilities |-> [i \in 1..Len(ls) |-> ls[i].id],
      snapshots |-> Len(sns) ]

\* The rendering done before the save: it does not depend on saveData's end.
ViewBeforeSave(as, ls, sns) == updateAllDisplays(as, ls, sns)

\* What the page shows after "saveData(); updateAllDisplays();".
ViewAfterSave(as, ls, sns) == IF SaveThrows THEN view ELSE updateAllDisplays(as, ls, sns)

\* ------------------------------------------------------------------ inputs

\* What the user types into the asset form's text fields.
AssetInputs ==
    { [name |-> <<"H">>, purchaseDate |-> <<"2","0","2","0">>, purchasePrice |-> <<"3">>,
       currentValue |-> <<"5">>, notes |-> <<"n">>],
      [name |-> EmptyStr, purchaseDate |-> EmptyStr, purchasePrice |-> <<"x">>,
       currentValue |-> EmptyStr, notes |-> EmptyStr] }

\* What the user types into the liability form's text fields.
LiabilityInputs ==
    { [name |-> <<"M">>, originalAmount |-> <<"9">>, currentBalance |-> <<"4">>,
       interestRate |-> <<"3">>, startDate |-> <<"2","0","2","0">>, notes |-> EmptyStr],
      [name |-> EmptyStr, originalAmount |-> EmptyStr, currentBalance |-> EmptyStr,
       interestRate |-> EmptyStr, startDate |-> EmptyStr, notes |-> EmptyStr] }

\* The categories the user picks in the two category selects.
AssetCategoryChoices == {sRealEstate, sCash}
LiabilityCategoryChoices == {sMortgage, sCreditCard}
PlainAssetCategories == {sCash}
PlainLiabilityCategories == {sCreditCard}

\* What the user answers to takeSnapshot's prompt.
SnapshotNotes == {<<"q">>}

\* A file with one valid asset row and one valid liability row.
FileGood ==
    sHeader \o <<"\n">>
    \o <<"A","s","s","e","t",",","B","o","a","t",",","C","a","s","h",",","2","0","1","9",",","7",",","8",",",",",",",",",",","x","\n">>
    \o <<"L","i","a","b","i","l","i","t","y",",","L","o","a","n",",","M","o","r","t","g","a","g","e",",",",",",",",","9",",","4",",","3",",","2","0","1","9",",","\n">>

\* A file with a non-numeric price, a short row, an unknown type and an
\* Infinity price.
FileMixed ==
    sHeader \o <<"\n">>
    \o <<"A","s","s","e","t",",","B","a","d",",","C","a","s","h",",","2","0","1","9",",","a","b","c",",","8",",",",",",",",",",","\n">>
    \o <<"A","s","s","e","t",",","s","h","o","r","t",",","C","a","s","h","\n">>
    \o <<"O","t","h","e","r",",","Z","e","d",",","C","a","s","h",",","2","0","1","9",",","1",",","1",",",",",",",",",",","\n">>
    \o <<"A","s","s","e","t",",","G","o","l","d",",","C","a","s","h",",","2","0","1","9",",","I","n","f","i","n","i","t","y",",","2",",",",",",",",",",","\n">>

\* The files the user selects for import.
CsvFiles == {FileGood, FileMixed}

\* The ids generated so far.
Ids == 1..(nextId - 1)

\* The ids of the asset cards and of the liability cards on the page, each
\* with its Edit and Delete buttons.
AssetCards == { view.assets[i] : i \in 1..Len(view.assets) }
LiabilityCards == { view.liabilities[i] : i \in 1..Len(view.liabilities) }

\* ------------------------------------------------------------------- forms

\* select.value = v: the option with that value becomes the selected one; the
\* value reads as empty when no option has it.
SelectValue(options, v, none) == IF v \in options THEN v ELSE none

\* The liability category whose records updateAssetDebtOptions offers for an
\* asset category (empty: the debt group is hidden).
DebtCategoryFor(category) ==
    CASE category = sRealEstate -> sMortgage
      [] category = sVehicle -> sAutoLoan
      [] category = sBusinessInterest -> sBusinessLoan
      [] OTHER -> EmptyStr

\* The asset category whose records updateLiabilityAssetOptions offers for a
\* liability category.
AssetCategoryFor(category) ==
    CASE category = sMortgage -> sRealEstate
      [] category = sAutoLoan -> sVehicle
      [] category = sBusinessLoan -> sBusinessInterest
      [] OTHER -> EmptyStr

IdsOfCategory(recs, category) ==
    { recs[i].id : i \in { j \in 1..Len(recs) : recs[j].category = category } }

\* updateAssetDebtOptions on the form: for the three linkable categories the
\* group is shown and the select is rebuilt from the liabilities of the
\* matching category (its value is then None); otherwise the group is hidden.
updateAssetDebtOptions(form, ls) ==
    IF form.category \in {sRealEstate, sVehicle, sBusinessInterest}
    THEN [form EXCEPT !.shown = TRUE,
                      !.options = IdsOfCategory(ls, DebtCategoryFor(form.category)),
                      !.value = NULL]
    ELSE [form EXCEPT !.shown = FALSE]

updateLiabilityAssetOptions(form, as) ==
    IF form.category \in {sMortgage, sAutoLoan, sBusinessLoan}
    THEN [form EXCEPT !.shown = TRUE,
                      !.options = IdsOfCategory(as, AssetCategoryFor(form.category)),
                      !.value = NULL]
    ELSE [form EXCEPT !.shown = FALSE]

\* form.reset(): the selects go back to their first option (the empty
\* category, None); the options and the group's display stay.
ResetForm(form) == [form EXCEPT !.category = EmptyStr, !.value = NULL]

InitForm ==
    [category |-> EmptyStr, shown |-> FALSE, options |-> {}, value |-> NULL]

\* The asset form after openAssetModal(assetId).
OpenedAssetForm(assetId) ==
    LET i == FindIndex(assets, assetId)
        reset == ResetForm(assetForm)
    IN  IF assetId # NULL /\ i # 0
        THEN LET f == updateAssetDebtOptions(
                         [reset EXCEPT !.category =
                              SelectValue(assetCategories, assets[i].category, EmptyStr)],
                         liabilities)
             IN  IF assets[i].associatedDebtId # NULL
                 THEN [f EXCEPT !.value =
                          SelectValue(f.options, assets[i].associatedDebtId, NULL)]
                 ELSE f
        ELSE reset

\* The liability form after openLiabilityModal(liabilityId).
OpenedLiabilityForm(liabilityId) ==
    LET i == FindIndex(liabilities, liabilityId)
        reset == ResetForm(liabilityForm)
    IN  IF liabilityId # NULL /\ i # 0
        THEN LET f == updateLiabilityAssetOptions(
                         [reset EXCEPT !.category =
                              SelectValue(liabilityCategories, liabilities[i].category,
                                          EmptyStr)],
                         assets)
             IN  IF liabilities[i].associatedAssetId # NULL
                 THEN [f EXCEPT !.value =
                          SelectValue(f.options, liabilities[i].associatedAssetId, NULL)]
                 ELSE f
        ELSE reset

\* openAssetModal(assetId); editAsset(id) is openAssetModal(id).
openAssetModal(assetId) ==
    /\ editingAssetId' = assetId
    /\ assetForm' = OpenedAssetForm(assetId)
    /\ UNCHANGED << assets, liabilities, snapshots, editingLiabilityId, liabilityForm,
                    stored, view, importResult, reading, timers, nextId, now, errors,
                    setItemFails, call >>
    /\ Event

openLiabilityModal(liabilityId) ==
    /\ editingLiabilityId' = liabilityId
    /\ liabilityForm' = OpenedLiabilityForm(liabilityId)
    /\ UNCHANGED << assets, liabilities, snapshots, editingAssetId, assetForm,
                    stored, view, importResult, reading, timers, nextId, now, errors,
                    setItemFails, call >>
    /\ Event

\* The user picks a category in the asset form: the change listener runs
\* updateAssetDebtOptions.
ChangeAssetCategory(category) ==
    /\ category # assetForm.category
    /\ assetForm' = updateAssetDebtOptions([assetForm EXCEPT !.category = category],
                                           liabilities)
    /\ UNCHANGED << assets, liabilities, snapshots, editingAssetId, editingLiabilityId,
                    liabilityForm, stored, view, importResult, reading, timers,
                    nextId, now, errors, setItemFails, call >>
    /\ Event

ChangeLiabilityCategory(category) ==
    /\ category # liabilityForm.category
    /\ liabilityForm' = updateLiabilityAssetOptions(
                            [liabilityForm EXCEPT !.category = category], assets)
    /\ UNCHANGED << assets, liabilities, snapshots, editingAssetId, editingLiabilityId,
                    assetForm, stored, view, importResult, reading, timers,
                    nextId, now, errors, setItemFails, call >>
    /\ Event

\* The user picks one of the offered debts (or None) in the shown debt select.
SelectAssetDebt(id) ==
    /\ assetForm.shown
    /\ id \in assetForm.options \cup {NULL}
    /\ id # assetForm.value
    /\ assetForm' = [assetForm EXCEPT !.value = id]
    /\ UNCHANGED << assets, liabilities, snapshots, editingAssetId, editingLiabilityId,
                    liabilityForm, stored, view, importResult, reading, timers,
                    nextId, now, errors, setItemFails, call >>
    /\ Event

SelectLiabilityAsset(id) ==
    /\ liabilityForm.shown
    /\ id \in liabilityForm.options \cup {NULL}
    /\ id # liabilityForm.value
    /\ liabilityForm' = [liabilityForm EXCEPT !.value = id]
    /\ UNCHANGED << assets, liabilities, snapshots, editingAssetId, editingLiabilityId,
                    assetForm, stored, view, importResult, reading, timers,
                    nextId, now, errors, setItemFails, call >>
    /\ Event

\* closeAllModals, from a close or cancel button or a click outside a modal.
closeAllModals ==
    /\ editingAssetId' = NULL
    /\ editingLiabilityId' = NULL
    /\ UNCHANGED << assets, liabilities, snapshots, assetForm, liabilityForm, stored,
                    view, importResult, reading, timers, nextId, now, errors,
                    setItemFails, call >>
    /\ Event

\* ----------------------------------------------------------------- submit

\* The assetData object handleAssetSubmit builds from the form, for the id
\* and the createdAt it is given.
AssetData(in, id, createdAt) ==
    [ id |-> id,
      name |-> in.name,
      category |-> assetForm.category,
      purchaseDate |-> in.purchaseDate,
      purchasePrice |-> ParseFloat(in.purchasePrice),
      currentValue |-> ParseFloat(in.currentValue),
      associatedDebtId |-> assetForm.value,
      notes |-> in.notes,
      createdAt |-> createdAt,
      updatedAt |-> now ]

LiabilityData(in, id, createdAt) ==
    [ id |-> id,
      name |-> in.name,
      category |-> liabilityForm.category,
      originalAmount |-> ParseFloat(in.originalAmount),
      currentBalance |-> ParseFloat(in.currentBalance),
      interestRate |-> OrZero(ParseFloat(in.interestRate)),
      startDate |-> in.startDate,
      associatedAssetId |-> liabilityForm.value,
      notes |-> in.notes,
      createdAt |-> createdAt,
      updatedAt |-> now ]

\* The assets array after handleAssetSubmit: the record at the position
\* findIndex gives is overwritten when an id is being edited, a record with a
\* generated id is pushed otherwise.
SubmittedAssets(in) ==
    IF editingAssetId # NULL
    THEN LET index == FindIndex(assets, editingAssetId)
         IN  [assets EXCEPT ![index] = AssetData(in, editingAssetId, assets[index].createdAt)]
    ELSE Append(assets, AssetData(in, nextId, now))

SubmittedLiabilities(in) ==
    IF editingLiabilityId # NULL
    THEN LET index == FindIndex(liabilities, editingLiabilityId)
         IN  [liabilities EXCEPT
                 ![index] = LiabilityData(in, editingLiabilityId, liabilities[index].createdAt)]
    ELSE Append(liabilities, LiabilityData(in, nextId, now))

\* handleAssetSubmit with the text fields in.  When the edited id is not in
\* assets, assets.find(...) is undefined and reading its createdAt throws a
\* TypeError before anything is changed: the handler ends there, uncaught.
handleAssetSubmit(in) ==
    \/ /\ editingAssetId # NULL
       /\ FindIndex(assets, editingAssetId) = 0
       /\ errors' = errors \cup {"TypeError"}
       /\ UNCHANGED << assets, liabilities, snapshots, editingAssetId, editingLiabilityId,
                       assetForm, liabilityForm, stored, view, importResult, reading,
                       timers, nextId, now, setItemFails, call >>
       /\ Event
    \/ /\ editingAssetId # NULL => FindIndex(assets, editingAssetId) # 0
       /\ assets' = SubmittedAssets(in)
       /\ nextId' = IF editingAssetId = NULL THEN nextId + 1 ELSE nextId
       /\ stored' = SetItems(assets', liabilities, snapshots)
       /\ view' = ViewAfterSave(assets', liabilities, snapshots)
       /\ editingAssetId' = IF SaveThrows THEN editingAssetId ELSE NULL
       /\ editingLiabilityId' = IF SaveThrows THEN editingLiabilityId ELSE NULL
       /\ errors' = ErrorsAfterSave
       /\ UNCHANGED << liabilities, snapshots, assetForm, liabilityForm, importResult,
                       reading, timers, now, setItemFails, call >>
       /\ Event

handleLiabilitySubmit(in) ==
    \/ /\ editingLiabilityId # NULL
       /\ FindIndex(liabilities, editingLiabilityId) = 0
       /\ errors' = errors \cup {"TypeError"}
       /\ UNCHANGED << assets, liabilities, snapshots, editingAssetId, editingLiabilityId,
                       assetForm, liabilityForm, stored, view, importResult, reading,
                       timers, nextId, now, setItemFails, call >>
       /\ Event
    \/ /\ editingLiabilityId # NULL => FindIndex(liabilities, editingLiabilityId) # 0
       /\ liabilities' = SubmittedLiabilities(in)
       /\ nextId' = IF editingLiabilityId = NULL THEN nextId + 1 ELSE nextId
       /\ stored' = SetItems(assets, liabilities', snapshots)
       /\ view' = ViewAfterSave(assets, liabilities', snapshots)
       /\ editingAssetId' = IF SaveThrows THEN editingAssetId ELSE NULL
       /\ editingLiabilityId' = IF SaveThrows THEN editingLiabilityId ELSE NULL
       /\ errors' = ErrorsAfterSave
       /\ UNCHANGED << assets, snapshots, assetForm, liabilityForm, importResult,
                       reading, timers, now, setItemFails, call >>
       /\ Event

\* ------------------------------------------------------------------ delete

RECURSIVE FilterOutId(_, _)
\* recs.filter(r => r.id !== id)
FilterOutId(recs, id) ==
    IF recs = << >> THEN << >>
    ELSE IF Head(recs).id # id THEN <<Head(recs)>> \o FilterOutId(Tail(recs), id)
    ELSE FilterOutId(Tail(recs), id)

\* deleteAsset(id), confirmed being what confirm returns.
deleteAsset(id, confirmed) ==
    IF confirmed
    THEN /\ assets' = FilterOutId(assets, id)
         /\ stored' = SetItems(assets', liabilities, snapshots)
         /\ view' = ViewAfterSave(assets', liabilities, snapshots)
         /\ errors' = ErrorsAfterSave
         /\ UNCHANGED << liabilities, snapshots, editingAssetId, editingLiabilityId,
                         assetForm, liabilityForm, importResult, reading, timers,
                         nextId, now, setItemFails, call >>
         /\ Event
    ELSE UNCHANGED vars

\* A deleteLiability that also clears the link of the assets that named it.
deleteLiabilityUnlinking(id, confirmed) ==
    IF confirmed
    THEN /\ liabilities' = FilterOutId(liabilities, id)
         /\ assets' = [i \in 1..Len(assets) |->
                          IF assets[i].associatedDebtId = id
                          THEN [assets[i] EXCEPT !.associatedDebtId = NULL]
                          ELSE assets[i]]
         /\ stored' = SetItems(assets', liabilities', snapshots)
         /\ view' = ViewAfterSave(assets', liabilities', snapshots)
         /\ errors' = ErrorsAfterSave
         /\ UNCHANGED << snapshots, editingAssetId, editingLiabilityId,
                         assetForm, liabilityForm, importResult, reading, timers,
                         nextId, now, setItemFails, call >>
         /\ Event
    ELSE UNCHANGED vars

deleteLiability(id, confirmed) ==
    IF confirmed
    THEN /\ liabilities' = FilterOutId(liabilities, id)
         /\ stored' = SetItems(assets, liabilities', snapshots)
         /\ view' = ViewAfterSave(assets, liabilities', snapshots)
         /\ errors' = ErrorsAfterSave
         /\ UNCHANGED << assets, snapshots, editingAssetId, editingLiabilityId,
                         assetForm, liabilityForm, importResult, reading, timers,
                         nextId, now, setItemFails, call >>
         /\ Event
    ELSE UNCHANGED vars

\* A deleteAllData that asks once.
deleteAllDataAskingOnce(first, second) ==
    IF first
    THEN /\ assets' = << >>
         /\ liabilities' = << >>
         /\ snapshots' = << >>
         /\ stored' = SetItems(assets', liabilities', snapshots')
         /\ view' = ViewAfterSave(assets', liabilities', snapshots')
         /\ errors' = ErrorsAfterSave
         /\ UNCHANGED << editingAssetId, editingLiabilityId, assetForm, liabilityForm,
                         importResult, reading, timers, nextId, now, setItemFails, call >>
         /\ Event
    ELSE UNCHANGED vars

\* deleteAllData, with the answers to its two confirmations.
deleteAllData(first, second) ==
    IF first /\ second
    THEN /\ assets' = << >>
         /\ liabilities' = << >>
         /\ snapshots' = << >>
         /\ stored' = SetItems(assets', liabilities', snapshots')
         /\ view' = ViewAfterSave(assets', liabilities', snapshots')
         /\ errors' = ErrorsAfterSave
         /\ UNCHANGED << editingAssetId, editingLiabilityId, assetForm, liabilityForm,
                         importResult, reading, timers, nextId, now, setItemFails, call >>
         /\ Event
    ELSE UNCHANGED vars

\* --------------------------------------------------------------- snapshots

\* The snapshot object takeSnapshot builds.
Snapshot(notes) ==
    [ id |-> nextId,
      date |-> now,
      totalAssets |-> calculateTotalAssets,
      totalLiabilities |-> calculateTotalLiabilities,
      netWorth |-> calculateNetWorth,
      notes |-> notes ]

\* A takeSnapshot that brings the earlier snapshots up to the current totals.
takeSnapshotRefreshing(notes) ==
    /\ snapshots' = Append([i \in 1..Len(snapshots) |->
                               [snapshots[i] EXCEPT
                                   !.totalAssets = calculateTotalAssets,
                                   !.totalLiabilities = calculateTotalLiabilities,
                                   !.netWorth = calculateNetWorth]],
                           Snapshot(notes))
    /\ nextId' = nextId + 1
    /\ stored' = SetItems(assets, liabilities, snapshots')
    /\ errors' = errors \cup {IF SaveThrows THEN "QuotaExceededError" ELSE "ReferenceError"}
    /\ UNCHANGED << assets, liabilities, editingAssetId, editingLiabilityId, assetForm,
                    liabilityForm, view, importResult, reading, timers, now,
                    setItemFails, call >>
    /\ Event

\* takeSnapshot: the snapshot is pushed and saved; the call of updateDashboard,
\* a function the program does not define, then throws a ReferenceError
\* (uncaught), so nothing is rendered and the alert that follows is not reached.
\* A saveData that throws ends the handler one statement earlier.
takeSnapshot(notes) ==
    /\ snapshots' = Append(snapshots, Snapshot(notes))
    /\ nextId' = nextId + 1
    /\ stored' = SetItems(assets, liabilities, snapshots')
    /\ errors' = errors \cup {IF SaveThrows THEN "QuotaExceededError" ELSE "ReferenceError"}
    /\ UNCHANGED << assets, liabilities, editingAssetId, editingLiabilityId, assetForm,
                    liabilityForm, view, importResult, reading, timers, now,
                    setItemFails, call >>
    /\ Event

\* ------------------------------------------------------------------ import

\* exportData: the CSV text goes to the download; the program's state stays.
ExportDataClick == UNCHANGED vars

\* processImport without a selected file: an alert, nothing else.
processImportNoFile == UNCHANGED vars

\* processImport with a selected file: a FileReader starts reading it.
processImport(file) ==
    /\ reading' = Append(reading, file)
    /\ UNCHANGED << assets, liabilities, snapshots, editingAssetId, editingLiabilityId,
                    assetForm, liabilityForm, stored, view, importResult, timers,
                    nextId, now, errors, setItemFails, call >>
    /\ Event

RemoveAt(seq, i) == SubSeq(seq, 1, i - 1) \o SubSeq(seq, i + 1, Len(seq))

\* reader.onload for the i-th read in flight: parseCSV on the text (it pushes
\* onto the two arrays), the result message, saveData, updateAllDisplays and
\* the closeAllModals timer.  A saveData that throws is caught: the message
\* becomes 'Import failed: ...', and nothing is rendered or scheduled.
readerOnload(i) ==
    LET result == parseCSV(reading[i], assets, liabilities, nextId, now)
    IN  /\ assets' = result.assets
        /\ liabilities' = result.liabilities
        /\ nextId' = result.nextId
        /\ importResult' =
               IF SaveThrows
               THEN [class |-> "error", assetsAdded |-> 0, liabilitiesAdded |-> 0]
               ELSE [class |-> "success", assetsAdded |-> result.assetsAdded,
                     liabilitiesAdded |-> result.liabilitiesAdded]
        /\ stored' = SetItems(assets', liabilities', snapshots)
        /\ view' = ViewAfterSave(assets', liabilities', snapshots)
        /\ reading' = RemoveAt(reading, i)
        /\ timers' = IF SaveThrows THEN timers ELSE timers + 1
        /\ UNCHANGED << snapshots, editingAssetId, editingLiabilityId, assetForm,
                        liabilityForm, now, errors, setItemFails, call >>
        /\ Event

\* The timeout set by a successful import fires: closeAllModals.
TimerFires ==
    /\ timers > 0
    /\ timers' = timers - 1
    /\ editingAssetId' = NULL
    /\ editingLiabilityId' = NULL
    /\ UNCHANGED << assets, liabilities, snapshots, assetForm, liabilityForm, stored,
                    view, importResult, reading, nextId, now, errors,
                    setItemFails, call >>
    /\ Event

\* localStorage fills up, or room is made in it: which setItem of the next
\* saveData it refuses changes.
StorageChanges(k) ==
    /\ setItemFails' = k
    /\ UNCHANGED << assets, liabilities, snapshots, editingAssetId, editingLiabilityId,
                    assetForm, liabilityForm, stored, view, importResult, reading,
                    timers, nextId, now, errors, call >>
    /\ Event

\* Time passes.
Tick ==
    /\ now' = now + 1
    /\ UNCHANGED << assets, liabilities, snapshots, editingAssetId, editingLiabilityId,
                    assetForm, liabilityForm, stored, view, importResult, reading,
                    timers, nextId, errors, setItemFails, call >>
    /\ Event

\* ------------------------------------------------------------ specification

\* What an earlier session left in localStorage: nothing, or a bank account
\* and a mortgage, both valid and not linked.
SavedAsset ==
    [ id |-> 1, name |-> <<"S">>, category |-> sBankAccount,
      purchaseDate |-> <<"2","0","1","8">>, purchasePrice |-> Fin(1),
      currentValue |-> Fin(2), associatedDebtId |-> NULL, notes |-> EmptyStr,
      createdAt |-> 0, updatedAt |-> 0 ]

SavedLiability ==
    [ id |-> 2, name |-> <<"M">>, category |-> sMortgage,
      originalAmount |-> Fin(9), currentBalance |-> Fin(4), interestRate |-> Fin(3),
      startDate |-> <<"2","0","1","8">>, associatedAssetId |-> NULL,
      notes |-> EmptyStr, createdAt |-> 0, updatedAt |-> 0 ]

SavedStores ==
    { saveData(<< >>, << >>, << >>),
      saveData(<<SavedAsset>>, <<SavedLiability>>, << >>) }

\* The largest id among the records of a stored collection set.
MaxIdOf(saved) ==
    LET ids == { saved.assets[i].id : i \in 1..Len(saved.assets) }
               \cup { saved.liabilities[i].id : i \in 1..Len(saved.liabilities) }
               \cup { saved.snapshots[i].id : i \in 1..Len(saved.snapshots) }
    IN  IF ids = {} THEN 0 ELSE CHOOSE m \in ids : \A n \in ids : n <= m

\* DOMContentLoaded with saved in localStorage: loadData parses the three
\* stored collections (an absent key leaves the array empty) and
\* updateAllDisplays renders them.
Loaded(saved) ==
    /\ stored = saved
    /\ assets = saved.assets
    /\ liabilities = saved.liabilities
    /\ snapshots = saved.snapshots
    /\ editingAssetId = NULL
    /\ editingLiabilityId = NULL
    /\ assetForm = InitForm
    /\ liabilityForm = InitForm
    /\ view = updateAllDisplays(saved.assets, saved.liabilities, saved.snapshots)
    /\ importResult = [class |-> "", assetsAdded |-> 0, liabilitiesAdded |-> 0]
    /\ reading = << >>
    /\ timers = 0
    /\ nextId = MaxIdOf(saved) + 1
    /\ now = 0
    /\ errors = {}
    /\ setItemFails = 0
    /\ steps = 0

Init == \E saved \in SavedStores : Loaded(saved) /\ call = NoCall

\* The Add button (no id) or a card's Edit button.
OpenAssetModalStep == \E id \in AssetCards \cup {NULL} : openAssetModal(id)
OpenLiabilityModalStep == \E id \in LiabilityCards \cup {NULL} : openLiabilityModal(id)
SelectAssetDebtStep == \E id \in Ids \cup {NULL} : SelectAssetDebt(id)
SelectLiabilityAssetStep == \E id \in Ids \cup {NULL} : SelectLiabilityAsset(id)
AssetSubmitStep == \E in \in AssetInputs : handleAssetSubmit(in)
LiabilitySubmitStep == \E in \in LiabilityInputs : handleLiabilitySubmit(in)
\* A card's Delete button, and the answer to its confirmation.
DeleteAssetStep == \E id \in AssetCards, confirmed \in BOOLEAN : deleteAsset(id, confirmed)
DeleteLiabilityStep ==
    \E id \in LiabilityCards, confirmed \in BOOLEAN : deleteLiability(id, confirmed)
DeleteAllDataStep == \E first \in BOOLEAN, second \in BOOLEAN : deleteAllData(first, second)
TakeSnapshotStep == \E notes \in SnapshotNotes : takeSnapshot(notes)
ProcessImportStep == \E file \in CsvFiles : processImport(file)
ReaderOnloadStep == \E i \in 1..Len(reading) : readerOnload(i)

\* The user picks a category that has no linkable counterpart.
PlainAssetCategoryStep == \E c \in PlainAssetCategories : ChangeAssetCategory(c)
PlainLiabilityCategoryStep == \E c \in PlainLiabilityCategories : ChangeLiabilityCategory(c)

\* The user picks any of the offered categories.
ChangeAssetCategoryStep == \E c \in AssetCategoryChoices : ChangeAssetCategory(c)
ChangeLiabilityCategoryStep == \E c \in LiabilityCategoryChoices : ChangeLiabilityCategory(c)

\* The record store under every operation on it: the forms with categories
\* that have no link, delete, delete-all, snapshots, export and import.
Next ==
    \/ OpenAssetModalStep
    \/ OpenLiabilityModalStep
    \/ PlainAssetCategoryStep
    \/ PlainLiabilityCategoryStep
    \/ closeAllModals
    \/ AssetSubmitStep
    \/ LiabilitySubmitStep
    \/ DeleteAssetStep
    \/ DeleteLiabilityStep
    \/ DeleteAllDataStep
    \/ TakeSnapshotStep
    \/ ExportDataClick
    \/ processImportNoFile
    \/ ProcessImportStep
    \/ ReaderOnloadStep
    \/ TimerFires

Spec == Init /\ [][Next]_vars

\* The two forms with the linkable categories, the records they save and the
\* deletes, while time passes.
NextLink ==
    \/ OpenAssetModalStep
    \/ OpenLiabilityModalStep
    \/ ChangeAssetCategoryStep
    \/ ChangeLiabilityCategoryStep
    \/ SelectAssetDebtStep
    \/ SelectLiabilityAssetStep
    \/ closeAllModals
    \/ AssetSubmitStep
    \/ LiabilitySubmitStep
    \/ DeleteAssetStep
    \/ DeleteLiabilityStep
    \/ Tick

SpecLink == Init /\ [][NextLink]_vars

\* localStorage starts to refuse a setItem of saveData (the first, the second
\* or the third), or accepts them all again.
StorageStep == \E k \in 0..3 : StorageChanges(k)

\* The handlers that save, with a localStorage that can be full.
NextStore ==
    \/ StorageStep
    \/ OpenAssetModalStep
    \/ OpenLiabilityModalStep
    \/ AssetSubmitStep
    \/ LiabilitySubmitStep
    \/ DeleteAssetStep
    \/ DeleteLiabilityStep
    \/ DeleteAllDataStep
    \/ TakeSnapshotStep
    \/ ProcessImportStep
    \/ ReaderOnloadStep
    \/ TimerFires

SpecStore == Init /\ [][NextStore]_vars

\* ------------------------------------------------- functions on their own

\* The amounts of the liabilities calculatePayoffPercentage is called on.
Amounts == 0..MaxAmount \cup {400, 1000}

PayoffArguments ==
    { [SavedLiability EXCEPT !.originalAmount = Fin(o), !.currentBalance = Fin(b)] :
          o \in Amounts, b \in Amounts }

\* calculatePayoffPercentage is about to be called on a liability.
InitPayoff ==
    /\ Loaded(saveData(<< >>, << >>, << >>))
    /\ \E l \in PayoffArguments :
           call = [fn |-> "calculatePayoffPercentage", arg |-> l, result |-> Fin(0),
                   done |-> FALSE]

\* The pending call returns.
PayoffReturns ==
    /\ call.fn = "calculatePayoffPercentage"
    /\ ~call.done
    /\ call' = [call EXCEPT !.result = calculatePayoffPercentage(call.arg),
                            !.done = TRUE]
    /\ UNCHANGED << assets, liabilities, snapshots, editingAssetId, editingLiabilityId,
                    assetForm, liabilityForm, stored, view, importResult, reading,
                    timers, nextId, now, errors, setItemFails >>
    /\ Event

NextPayoff == PayoffReturns

SpecPayoff == InitPayoff /\ [][NextPayoff]_vars

\* The characters of the lines parseCSVLine is called on: a letter, the
\* comma, the double quote and the space.
LineChars == {"a", ",", "\"", " "}

Lines == UNION { [1..n -> LineChars] : n \in 0..MaxLen }

\* parseCSVLine is about to be called on a line.
InitLine ==
    /\ Loaded(saveData(<< >>, << >>, << >>))
    /\ \E line \in Lines :
           call = [fn |-> "parseCSVLine", arg |-> line, result |-> << >>, done |-> FALSE]

LineReturns ==
    /\ call.fn = "parseCSVLine"
    /\ ~call.done
    /\ call' = [call EXCEPT !.result = parseCSVLine(call.arg), !.done = TRUE]
    /\ UNCHANGED << assets, liabilities, snapshots, editingAssetId, editingLiabilityId,
                    assetForm, liabilityForm, stored, view, importResult, reading,
                    timers, nextId, now, errors, setItemFails >>
    /\ Event

NextLine == LineReturns

SpecLine == InitLine /\ [][NextLine]_vars

\* ---------------------------------------------------------------- properties

RECURSIVE IntSum(_)
IntSum(nums) == IF nums = << >> THEN 0 ELSE Head(nums).v + IntSum(Tail(nums))

\* The arithmetic sum of a sequence of doubles, stated without the order of
\* the additions: NaN when a term is NaN or when both infinities occur, the
\* infinity that occurs otherwise, the integer sum when every term is finite
\* (0 for the empty sequence).
SumOf(nums) ==
    LET terms == { nums[i] : i \in 1..Len(nums) }
    IN  IF NaN \in terms \/ (Inf(1) \in terms /\ Inf(-1) \in terms) THEN NaN
        ELSE IF Inf(1) \in terms THEN Inf(1)
        ELSE IF Inf(-1) \in terms THEN Inf(-1)
        ELSE Fin(IntSum(nums))

CurrentValues == [i \in 1..Len(assets) |-> assets[i].currentValue]
CurrentBalances == [i \in 1..Len(liabilities) |-> liabilities[i].currentBalance]

\* C1: in every reachable state calculateTotalAssets() is the sum of
\* currentValue over the stored assets, calculateTotalLiabilities() the sum of
\* currentBalance over the stored liabilities (0 for an empty collection), and
\* calculateNetWorth() their difference.
C1_TotalsAreSums ==
    /\ calculateTotalAssets = SumOf(CurrentValues)
    /\ calculateTotalLiabilities = SumOf(CurrentBalances)
    /\ calculateNetWorth = NumSub(SumOf(CurrentValues), SumOf(CurrentBalances))
    /\ assets = << >> => calculateTotalAssets = Fin(0)
    /\ liabilities = << >> => calculateTotalLiabilities = Fin(0)

\* A store with several assets and liabilities and a snapshot, whose totals
\* are finite and are no single record's value.
C1_Witness ==
    /\ Len(assets) >= 2
    /\ Len(liabilities) >= 2
    /\ snapshots # << >>
    /\ IsFinite(calculateNetWorth)
    /\ \A i \in 1..Len(assets) : assets[i].currentValue # calculateTotalAssets
    /\ \A i \in 1..Len(liabilities) :
          liabilities[i].currentBalance # calculateTotalLiabilities

\* The ids a link field can hold: none, a generated id, or one not generated.
LinkValues == 0..nextId

\* C2: for every stored asset a, whatever its associatedDebtId, and the stored
\* liabilities, calculateAssetEquity(a) is a.currentValue when the link is
\* null or is no stored liability's id, and a.currentValue minus the
\* currentBalance of the liability with that id otherwise.
C2_AssetEquity ==
    \A i \in 1..Len(assets), d \in LinkValues :
        LET a == [assets[i] EXCEPT !.associatedDebtId = d]
            linked == { j \in 1..Len(liabilities) : liabilities[j].id = d }
        IN  IF d = NULL \/ linked = {}
            THEN calculateAssetEquity(a) = a.currentValue
            ELSE \A j \in linked :
                    calculateAssetEquity(a) =
                        NumSub(a.currentValue, liabilities[j].currentBalance)

\* A stored asset linked to a stored liability whose balance differs from its
\* original amount, so that its equity is not its value.
C2_Witness ==
    \E i \in 1..Len(assets), j \in 1..Len(liabilities) :
        /\ assets[i].associatedDebtId = liabilities[j].id
        /\ liabilities[j].currentBalance # liabilities[j].originalAmount
        /\ IsFinite(calculateAssetEquity(assets[i]))
        /\ calculateAssetEquity(assets[i]) # assets[i].currentValue

\* The records of recs whose id is not id, in their order.
WithoutId(recs, id) == SelectSeq(recs, LAMBDA r : r.id # id)

HasId(recs, id) == \E i \in 1..Len(recs) : recs[i].id = id

\* seq is the start of seq2.
IsPrefix(seq, seq2) == Len(seq) <= Len(seq2) /\ SubSeq(seq2, 1, Len(seq)) = seq

\* C3: a confirmed deleteLiability(id) removes only the liability with that
\* id and leaves assets unchanged, so that an asset linked to id keeps the
\* dangling link and its equity is then its currentValue; a confirmed
\* deleteAsset(id) removes only that asset and leaves liabilities unchanged;
\* filtering out an id that is not present gives the collection back.
C3_DeleteFrame ==
    /\ [](\A id \in LinkValues :
            /\ ~HasId(liabilities, id) => FilterOutId(liabilities, id) = liabilities
            /\ ~HasId(assets, id) => FilterOutId(assets, id) = assets)
    /\ [][\A id \in LinkValues :
            /\ deleteLiability(id, TRUE) =>
                  /\ liabilities' = WithoutId(liabilities, id)
                  /\ assets' = assets
                  /\ \A i \in 1..Len(assets') :
                        assets'[i].associatedDebtId = id =>
                            EquityOf(assets'[i], liabilities') = assets'[i].currentValue
            /\ deleteAsset(id, TRUE) =>
                  /\ assets' = WithoutId(assets, id)
                  /\ liabilities' = liabilities]_vars

\* An asset keeps the id of a liability that is no longer stored, and its
\* equity is its value; the other liabilities are still there.
C3_Witness ==
    \E i \in 1..Len(assets) :
        /\ assets[i].associatedDebtId # NULL
        /\ ~HasId(liabilities, assets[i].associatedDebtId)
        /\ calculateAssetEquity(assets[i]) = assets[i].currentValue

\* The ids of the stored snapshots.
SnapshotIds == { snapshots[i].id : i \in 1..Len(snapshots) }

\* C4: takeSnapshot appends exactly one snapshot, with a new id and with the
\* three totals of the store at that moment; every step other than a confirmed
\* delete-all-data keeps the snapshots there were at their positions, with
\* their ids and values.
C4_SnapshotsImmutable ==
    [][/\ \A notes \in SnapshotNotes :
            takeSnapshot(notes) =>
                /\ Len(snapshots') = Len(snapshots) + 1
                /\ snapshots'[Len(snapshots')].id \notin SnapshotIds
                /\ snapshots'[Len(snapshots')].totalAssets = SumOf(CurrentValues)
                /\ snapshots'[Len(snapshots')].totalLiabilities = SumOf(CurrentBalances)
                /\ snapshots'[Len(snapshots')].netWorth =
                      NumSub(SumOf(CurrentValues), SumOf(CurrentBalances))
       /\ IsPrefix(snapshots, snapshots') \/ deleteAllData(TRUE, TRUE)]_vars

\* Two snapshots in the history, the first taken of a store that differs
\* from the one of the second and from the current one.
C4_Witness ==
    /\ Len(snapshots) >= 2
    /\ snapshots[1].netWorth # snapshots[2].netWorth
    /\ snapshots[1].netWorth # calculateNetWorth
    /\ snapshots[1].totalAssets # calculateTotalAssets

\* What exportData writes for the store, parsed into an empty store.
ReImported == parseCSV(exportData(assets, liabilities), << >>, << >>, nextId, now)

\* C5: the CSV text exportData produces for the store, given to parseCSV on
\* an empty store, yields as many assets and liabilities, in the same order,
\* each with the name, category, dates, numeric fields and notes of the
\* exported record.
C5_RoundTrip ==
    /\ Len(ReImported.assets) = Len(assets)
    /\ Len(ReImported.liabilities) = Len(liabilities)
    /\ \A i \in 1..Len(assets) :
          LET a == assets[i]
              b == ReImported.assets[i]
          IN  /\ b.name = a.name /\ b.category = a.category
              /\ b.purchaseDate = a.purchaseDate
              /\ b.purchasePrice = a.purchasePrice
              /\ b.currentValue = a.currentValue
              /\ b.notes = a.notes
    /\ \A i \in 1..Len(liabilities) :
          LET l == liabilities[i]
              m == ReImported.liabilities[i]
          IN  /\ m.name = l.name /\ m.category = l.category
              /\ m.startDate = l.startDate
              /\ m.originalAmount = l.originalAmount
              /\ m.currentBalance = l.currentBalance
              /\ m.interestRate = l.interestRate
              /\ m.notes = l.notes

\* The data rows of a CSV text, tokenized.
DataRows(csvText) ==
    LET lines == CsvLines(csvText)
    IN  [k \in 1..(Len(lines) - 1) |-> parseCSVLine(lines[k + 1])]

\* A row that may be added as an asset: at least 11 fields, Type exactly
\* Asset, name and category not empty, price and value finite numbers.
AssetRowOk(fields) ==
    /\ Len(fields) >= 11
    /\ fields[1] = sAsset
    /\ fields[2] # EmptyStr /\ fields[3] # EmptyStr
    /\ IsFinite(ParseFloat(fields[5])) /\ IsFinite(ParseFloat(fields[6]))

\* A row that may be added as a liability.
LiabilityRowOk(fields) ==
    /\ Len(fields) >= 11
    /\ fields[1] = sLiability
    /\ fields[2] # EmptyStr /\ fields[3] # EmptyStr /\ fields[10] # EmptyStr
    /\ IsFinite(ParseFloat(fields[7])) /\ IsFinite(ParseFloat(fields[8]))

\* C6: when an import parses a file, every record it adds comes from a row of
\* at least 11 fields whose Type is Asset (Liability), whose required text
\* fields are not empty and whose required numeric fields are finite numbers;
\* the other rows add nothing, and the counts reported are the growth of the
\* two collections.
C6_RowAcceptance ==
    [][\A i \in 1..Len(reading) :
          (timers' = timers + 1 /\ readerOnload(i)) =>
              LET rows == DataRows(reading[i])
                  okAssets == { k \in 1..Len(rows) : AssetRowOk(rows[k]) }
                  okLiabilities == { k \in 1..Len(rows) : LiabilityRowOk(rows[k]) }
              IN  /\ importResult'.assetsAdded = Len(assets') - Len(assets)
                  /\ importResult'.liabilitiesAdded = Len(liabilities') - Len(liabilities)
                  /\ Len(assets') - Len(assets) <= Cardinality(okAssets)
                  /\ Len(liabilities') - Len(liabilities) <= Cardinality(okLiabilities)
                  /\ \A j \in (Len(assets) + 1)..Len(assets') :
                        /\ \E k \in okAssets : rows[k][2] = assets'[j].name
                        /\ IsFinite(assets'[j].purchasePrice)
                        /\ IsFinite(assets'[j].currentValue)
                  /\ \A j \in (Len(liabilities) + 1)..Len(liabilities') :
                        /\ \E k \in okLiabilities : rows[k][2] = liabilities'[j].name
                        /\ IsFinite(liabilities'[j].originalAmount)
                        /\ IsFinite(liabilities'[j].currentBalance)]_vars

\* The ids of the stored records and snapshots.
AssetIds == { assets[i].id : i \in 1..Len(assets) }
LiabilityIds == { liabilities[i].id : i \in 1..Len(liabilities) }
StoredIds == AssetIds \cup LiabilityIds \cup SnapshotIds

\* C7: when the file-read callback runs, the assets and liabilities of that
\* moment stay, unmodified and in their order, and the imported records
\* follow them; every imported record has an id that no stored record had and
\* that no other imported record has, and no link; snapshots are unchanged.
C7_ImportOnlyAdds ==
    [][\A i \in 1..Len(reading) :
          (timers' = timers + 1 /\ readerOnload(i)) =>
              LET newAssets == (Len(assets) + 1)..Len(assets')
                  newLiabilities == (Len(liabilities) + 1)..Len(liabilities')
              IN  /\ IsPrefix(assets, assets')
                  /\ IsPrefix(liabilities, liabilities')
                  /\ snapshots' = snapshots
                  /\ \A j \in newAssets :
                        /\ assets'[j].id \notin StoredIds
                        /\ assets'[j].associatedDebtId = NULL
                        /\ \A k \in newAssets : k # j => assets'[k].id # assets'[j].id
                        /\ \A k \in newLiabilities : liabilities'[k].id # assets'[j].id
                  /\ \A j \in newLiabilities :
                        /\ liabilities'[j].id \notin StoredIds
                        /\ liabilities'[j].associatedAssetId = NULL
                        /\ \A k \in newLiabilities :
                              k # j => liabilities'[k].id # liabilities'[j].id]_vars

\* An import has completed on a store that held records: the imported asset
\* and liability follow the ones there were, another read is still in flight
\* and a snapshot taken before is in the history.
C7_Witness ==
    /\ importResult.class = "success"
    /\ importResult.assetsAdded >= 1
    /\ importResult.liabilitiesAdded >= 1
    /\ Len(assets) > importResult.assetsAdded
    /\ Len(liabilities) > importResult.liabilitiesAdded
    /\ assets[Len(assets)].createdAt = now
    /\ assets[Len(assets)].associatedDebtId = NULL
    /\ reading # << >>

\* The position of the record with the id (ids are not repeated).
PositionOf(recs, id) == CHOOSE k \in 1..Len(recs) : recs[k].id = id

\* new is old with the record of the id replaced at its position by one that
\* keeps the id and createdAt and has updatedAt t.
ReplacedInPlace(old, new, id, t) ==
    LET k == PositionOf(old, id)
    IN  /\ Len(new) = Len(old)
        /\ new[k].id = id
        /\ new[k].createdAt = old[k].createdAt
        /\ new[k].updatedAt = t
        /\ \A j \in 1..Len(old) : j # k => new[j] = old[j]

\* new is old followed by one record, whose id old does not hold.
AppendedOne(old, new) ==
    /\ Len(new) = Len(old) + 1
    /\ IsPrefix(old, new)
    /\ ~HasId(old, new[Len(new)].id)

\* C8: a submit of the asset (liability) form for an id that is in the
\* collection replaces that record at its position, keeps its id and
\* createdAt, sets updatedAt to the time of the submit and leaves the other
\* records and the length alone; a submit for an id that is not in the
\* collection appends exactly one record with an id new to it and leaves the
\* earlier records alone.
C8_SubmitReplacesOrAppends ==
    [][/\ \A in \in AssetInputs :
            handleAssetSubmit(in) =>
                IF HasId(assets, editingAssetId)
                THEN ReplacedInPlace(assets, assets', editingAssetId, now)
                ELSE AppendedOne(assets, assets')
       /\ \A in \in LiabilityInputs :
            handleLiabilitySubmit(in) =>
                IF HasId(liabilities, editingLiabilityId)
                THEN ReplacedInPlace(liabilities, liabilities', editingLiabilityId, now)
                ELSE AppendedOne(liabilities, liabilities')]_vars

\* What makes an asset submit invalid: an empty name or category, or a price
\* or value that does not parse to a finite number.
InvalidAssetSubmit(in) ==
    \/ in.name = EmptyStr
    \/ assetForm.category = EmptyStr
    \/ ~IsFinite(ParseFloat(in.purchasePrice))
    \/ ~IsFinite(ParseFloat(in.currentValue))

InvalidLiabilitySubmit(in) ==
    \/ in.name = EmptyStr
    \/ liabilityForm.category = EmptyStr
    \/ in.startDate = EmptyStr
    \/ ~IsFinite(ParseFloat(in.originalAmount))
    \/ ~IsFinite(ParseFloat(in.currentBalance))

NoNaNStored ==
    /\ \A i \in 1..Len(assets) :
          ~IsNaN(assets[i].purchasePrice) /\ ~IsNaN(assets[i].currentValue)
    /\ \A i \in 1..Len(liabilities) :
          /\ ~IsNaN(liabilities[i].originalAmount)
          /\ ~IsNaN(liabilities[i].currentBalance)
          /\ ~IsNaN(liabilities[i].interestRate)

\* C9: an invalid asset submit (empty name or category, price or value not a
\* finite number) leaves assets and the persisted data unchanged, likewise an
\* invalid liability submit (empty name, category or start date, original
\* amount or balance not finite); so no stored record has a NaN numeric field.
C9_SubmitValidates ==
    /\ []NoNaNStored
    /\ [][/\ \A in \in AssetInputs :
               (handleAssetSubmit(in) /\ InvalidAssetSubmit(in)) =>
                   assets' = assets /\ stored' = stored
          /\ \A in \in LiabilityInputs :
               (handleLiabilitySubmit(in) /\ InvalidLiabilitySubmit(in)) =>
                   liabilities' = liabilities /\ stored' = stored]_vars

LinkableAssetCategories == {sRealEstate, sVehicle, sBusinessInterest}
LinkableLiabilityCategories == {sMortgage, sAutoLoan, sBusinessLoan}

\* The link a record of the category may be saved with: none when the
\* category is not linkable, none or one of the offered candidates when it is.
\* (A record saved without a category is C9's case.)
LinkWithinPolicy(category, link, linkable, offered) ==
    category # EmptyStr =>
        IF category \in linkable THEN link = NULL \/ link \in offered ELSE link = NULL

\* C10: the candidates a form offers are the stored records of the category
\* compatible with the form's category, and a record saved by a submit has no
\* link when its category is not linkable, and no link or one of the offered
\* candidates when it is; for assets and, with the inverse table, liabilities.
C10_LinkagePolicy ==
    [][/\ \A c \in AssetCategoryChoices :
            (ChangeAssetCategory(c) /\ c \in LinkableAssetCategories) =>
                assetForm'.options = IdsOfCategory(liabilities, DebtCategoryFor(c))
       /\ \A c \in LiabilityCategoryChoices :
            (ChangeLiabilityCategory(c) /\ c \in LinkableLiabilityCategories) =>
                liabilityForm'.options = IdsOfCategory(assets, AssetCategoryFor(c))
       /\ \A in \in AssetInputs :
            (handleAssetSubmit(in) /\ editingAssetId \in AssetIds \cup {NULL}) =>
                LET r == assets'[IF editingAssetId # NULL
                                 THEN PositionOf(assets, editingAssetId)
                                 ELSE Len(assets')]
                IN  LinkWithinPolicy(r.category, r.associatedDebtId,
                                     LinkableAssetCategories, assetForm.options)
       /\ \A in \in LiabilityInputs :
            (handleLiabilitySubmit(in) /\ editingLiabilityId \in LiabilityIds \cup {NULL}) =>
                LET r == liabilities'[IF editingLiabilityId # NULL
                                      THEN PositionOf(liabilities, editingLiabilityId)
                                      ELSE Len(liabilities')]
                IN  LinkWithinPolicy(r.category, r.associatedAssetId,
                                     LinkableLiabilityCategories, liabilityForm.options)]_vars

\* The three collections and what localStorage holds are what they were.
DataUnchanged ==
    /\ assets' = assets
    /\ liabilities' = liabilities
    /\ snapshots' = snapshots
    /\ stored' = stored

\* C11: destructive operations execute only after explicit confirmation.  A
\* deleteAsset or deleteLiability whose confirm returns false, and a
\* deleteAllData one of whose two confirmations returns false, leave the three
\* collections and the persisted data exactly as they were; and a step that
\* removes a record or a snapshot is a confirmed delete of that record or a
\* delete-all with both confirmations given.
C11_ConfirmBeforeDestroy ==
    [][ /\ \A id \in LinkValues :
              /\ deleteAsset(id, FALSE) => DataUnchanged
              /\ deleteLiability(id, FALSE) => DataUnchanged
        /\ \A first \in BOOLEAN, second \in BOOLEAN :
              (~(first /\ second) /\ deleteAllData(first, second)) => DataUnchanged
        /\ (AssetIds \ { assets'[i].id : i \in 1..Len(assets') } # {})
              => \/ \E id \in AssetIds : deleteAsset(id, TRUE)
                 \/ deleteAllData(TRUE, TRUE)
        /\ (LiabilityIds \ { liabilities'[i].id : i \in 1..Len(liabilities') } # {})
              => \/ \E id \in LiabilityIds : deleteLiability(id, TRUE)
                 \/ deleteAllData(TRUE, TRUE)
        /\ (SnapshotIds \ { snapshots'[i].id : i \in 1..Len(snapshots') } # {})
              => deleteAllData(TRUE, TRUE)
      ]_vars

\* Records, a snapshot and their cards are there and saved (a declined delete
\* or delete-all has them to keep), after a confirmed delete of another record.
C11_Witness ==
    /\ assets # << >>
    /\ liabilities # << >>
    /\ snapshots # << >>
    /\ AssetCards # {}
    /\ stored = saveData(assets, liabilities, snapshots)
    /\ \E id \in Ids : id \notin StoredIds

\* localStorage holds the three collections as they are in memory.
Persisted == stored = saveData(assets, liabilities, snapshots)

C13_ImportAllOrNothing ==
    [][ \A i \in 1..Len(reading) :
            (importResult'.class = "error" /\ readerOnload(i))
                => /\ assets' = assets
                   /\ liabilities' = liabilities
                   /\ stored' = stored
      ]_vars

\* C14: calculatePayoffPercentage(l) is (originalAmount - currentBalance) /
\* originalAmount * 100 for every liability with originalAmount > 0 (1000 and
\* 400 give 60), and for originalAmount = 0 it yields a defined outcome: 0, or
\* an error that is flagged, not a NaN or an infinity.
C14_PayoffPercentage ==
    (call.fn = "calculatePayoffPercentage" /\ call.done) =>
        LET o == call.arg.originalAmount.v
            b == call.arg.currentBalance.v
            r == call.result
        IN  /\ o > 0 => /\ IsFinite(r)
                        /\ Num(r) * o = (o - b) * 100 * Den(r)
            /\ (o = 1000 /\ b = 400) => r = Fin(60)
            /\ o = 0 => \/ r = Fin(0)
                        \/ errors # {}

\* The number of double quotes of line before position i.
QuotesBefore(line, i) == Cardinality({ j \in 1..(i - 1) : line[j] = "\"" })

\* The positions of the commas of line outside quoted regions.
OutsideCommas(line) ==
    { i \in 1..Len(line) : line[i] = "," /\ QuotesBefore(line, i) % 2 = 0 }

\* s with its quote characters removed.
WithoutQuotes(s) == SelectSeq(s, LAMBDA c : c # "\"")

\* The k-th piece of line between consecutive outside commas, quotes removed.
Piece(line, k) ==
    LET commas == OutsideCommas(line)
        At(n) ==
            IF n = 0 THEN 0
            ELSE IF n > Cardinality(commas) THEN Len(line) + 1
            ELSE CHOOSE i \in commas : Cardinality({ j \in commas : j < i }) = n - 1
    IN  WithoutQuotes(SubSeq(line, At(k - 1) + 1, At(k) - 1))

\* C15: parseCSVLine is a two-state tokenizer.  For every line it returns one
\* field more than the line has commas outside quoted regions, and its k-th
\* field is, trimmed, the text between the (k-1)-th and the k-th of those
\* commas with the quote characters removed: a quote is never emitted, a comma
\* inside quotes stays in its field, and the untrimmed fields joined by the
\* outside commas are the line without its quotes.
C15_TwoStateTokenizer ==
    (call.fn = "parseCSVLine" /\ call.done) =>
        LET line == call.arg
            fields == call.result
        IN  /\ Len(fields) = Cardinality(OutsideCommas(line)) + 1
            /\ \A k \in 1..Len(fields) : fields[k] = Trim(Piece(line, k))

\* A line with a comma inside quotes and a comma outside has been tokenized:
\* the first stays in its field, the second ends one.
C15_Witness ==
    /\ call.fn = "parseCSVLine"
    /\ call.done
    /\ Len(call.result) = 2
    /\ \E k \in 1..2 : \E i \in 1..Len(call.result[k]) : call.result[k][i] = ","

\* C16: every takeSnapshot invocation runs to completion.  After the snapshot
\* is appended and saved, the displayed views are refreshed to show it and the
\* handler then reaches its success notice: it ends with the new snapshot
\* rendered and without an exception between the save and the notice.
C16_SnapshotCompletes ==
    [][ \A notes \in SnapshotNotes :
            takeSnapshot(notes)
                => /\ Persisted'
                   /\ view' = updateAllDisplays(assets', liabilities', snapshots')
                   /\ errors' = errors
      ]_vars

\* C17: in every reachable state a non-null editingAssetId is the id of a
\* record in assets and a non-null editingLiabilityId the id of a record in
\* liabilities, so that no submit in edit mode has thrown for a missing target.
C17_EditingIdExists ==
    /\ editingAssetId # NULL => editingAssetId \in AssetIds
    /\ editingLiabilityId # NULL => editingLiabilityId \in LiabilityIds
    /\ "TypeError" \notin errors

====
